---- MODULE Spec2Model ----
(***************************************************************************)
(* First-person movement demo (src/main.js): the keyboard handlers         *)
(* onKeyDown/onKeyUp, the pointer-lock gate and the per-frame integrator   *)
(* animate().                                                              *)
(*                                                                         *)
(* Numbers.  The program computes in floating point; the model computes    *)
(* exactly, in fixed point:                                                *)
(*   - a frame time dt is a whole number of ticks, TicksPerSecond ticks    *)
(*     to the second;                                                      *)
(*   - a velocity component is a whole number of 1/VelScale units/second;  *)
(*   - a length (position.y, a distance handed to controls.moveRight or    *)
(*     controls.moveForward) is a whole number of 1/PosScale units, with   *)
(*     PosScale = VelScale * TicksPerSecond, so that v * dt needs no       *)
(*     division;                                                           *)
(*   - a component of the normalized direction is a whole number of        *)
(*     1/DirScale.                                                         *)
(* A tick is 1/60 s.  The normalized diagonal (1/sqrt 2) is rounded down   *)
(* to 1/DirScale, and a quotient that is not whole is rounded toward zero  *)
(* to 1/VelScale.  Spec explores frame times that are whole multiples of   *)
(* CoarseTick (0.1 s), for which every product but the diagonal is exact;  *)
(* the lateral and sprint scenarios explore frames of single ticks.        *)
(*                                                                         *)
(* The camera's orientation belongs to PointerLockControls (mouse look),   *)
(* so the lateral camera position is not a function of this program's      *)
(* state alone.  The model keeps position.y, which main.js writes itself,  *)
(* and the distances the last frame handed to controls.moveRight and       *)
(* controls.moveForward.                                                   *)
(***************************************************************************)
EXTENDS Integers, Sequences, FiniteSets

VARIABLES
    moveForward, moveBackward, moveLeft, moveRight, isSprinting, canJump,
    velocity,       \* [x, y, z], 1/VelScale units per second
    positionY,      \* controls.object.position.y, 1/PosScale units
    moved,          \* [right, forward]: arguments of the last moveRight/moveForward calls
    isLocked,       \* controls.isLocked
    pendingFrames,  \* callbacks queued by requestAnimationFrame
    frameOps,       \* what the most recent animate() call did, in order
    held,           \* key codes currently down (the keyboard, not the program)
    jumpedThisHold, \* history: a jump was triggered since the last 'Space' key-up
    frames          \* history: frames run since a scenario began (the scenarios count them)

flags == <<moveForward, moveBackward, moveLeft, moveRight, isSprinting>>
physics == <<velocity, positionY, moved>>
loop == <<pendingFrames, frameOps>>
history == <<held, jumpedThisHold, frames>>
vars == <<flags, canJump, physics, isLocked, loop, history>>

----------------------------------------------------------------------------
(* Bounds of the exploration *)

MaxDt == 2          \* longest frame time of Spec, in coarse ticks (0.1 s)
MaxHeld == 2        \* keys the keyboard reports down at once (rollover)
MaxLateral == 1000  \* largest lateral speed explored, 1/VelScale units per second

MaxFineDt == 11     \* longest frame time of the lateral scenario, in ticks
MaxFrames == 2      \* frames of one run of the lateral scenario
SprintFrames == 60  \* frames of the sprint scenario (one second of 1/60 s frames)

\* A frame of one coarse tick removes the whole lateral velocity (10 * dt = 1)
\* and a longer one reverses it, so with frames of two coarse ticks and more
\* the lateral speed grows without bound; Frame explores only the frames that
\* leave both lateral components within MaxLateral (the walking speed reached
\* after one coarse tick).  A frame with dt > 0, a movement key and the sprint
\* flag exceeds it.

(* Scales of the fixed-point representation *)

TicksPerSecond == 60
VelScale == 200
DirScale == 1000
PosScale == VelScale * TicksPerSecond

(* Program constants *)

speed == 50
sprintMultiplier == 2
gravity == 30
jumpVelocity == 12
damping == 10
groundY == 2

\* The frame time with 10 * dt = 1, in ticks.
CoarseTick == TicksPerSecond \div damping

\* clock.getDelta() in Spec: whole coarse ticks.
FrameTimes == {k * CoarseTick : k \in 0..MaxDt}

Codes == {"KeyW", "KeyS", "KeyA", "KeyD", "ShiftLeft", "ShiftRight", "Space", "KeyQ"}

----------------------------------------------------------------------------
(* Arithmetic helpers *)

Abs(n) == IF n < 0 THEN -n ELSE n

\* Division rounding toward zero, as for magnitudes.
Quot(a, b) == IF a >= 0 THEN a \div b ELSE -((-a) \div b)

ISqrt(n) == CHOOSE r \in 0..(2 * DirScale) : r * r <= n /\ n < (r + 1) * (r + 1)

\* Number(flag)
Num(b) == IF b THEN 1 ELSE 0

JumpSpeed == jumpVelocity * VelScale
Ground == groundY * PosScale

----------------------------------------------------------------------------
(* onKeyDown / onKeyUp *)

MoveKeys == {"KeyW", "KeyS", "KeyA", "KeyD"}
SprintKeys == {"ShiftLeft", "ShiftRight"}

\* Mutant: the default case sets the flag too.
FlagAfterDownDefault(flag, keys, code) ==
    IF code \in keys \/ code \notin MoveKeys \cup SprintKeys \cup {"Space"} THEN TRUE ELSE flag

\* The value a flag has after a key-down of `code`, `keys` being the case labels that set it.
FlagAfterDown(flag, keys, code) == IF code \in keys THEN TRUE ELSE flag

\* Mutant: a missing break lets every movement key's release clear the flag.
FlagAfterUpFallsThrough(flag, keys, code) ==
    IF code \in keys \/ code \in MoveKeys THEN FALSE ELSE flag

\* The value a flag has after a key-up of `code`.
FlagAfterUp(flag, keys, code) == IF code \in keys THEN FALSE ELSE flag

\* case 'Space': if (canJump)
KeyDownJumps(code) == code = "Space" /\ canJump

\* Mutant: the jump is not guarded by canJump.
VelocityAfterDownUnguarded(code) ==
    IF code = "Space" THEN [velocity EXCEPT !.y = JumpSpeed] ELSE velocity

\* velocity.y = jumpVelocity
VelocityAfterDown(code) ==
    IF KeyDownJumps(code) THEN [velocity EXCEPT !.y = JumpSpeed] ELSE velocity

\* Mutant: the jump forgets to clear the flag.
CanJumpKept(code) == canJump

\* canJump = false
CanJumpAfterDown(code) == IF KeyDownJumps(code) THEN FALSE ELSE canJump

onKeyDown(code) ==
    /\ UNCHANGED <<positionY, moved, isLocked, loop>>
    /\ moveForward' = FlagAfterDown(moveForward, {"KeyW"}, code)
    /\ moveBackward' = FlagAfterDown(moveBackward, {"KeyS"}, code)
    /\ moveLeft' = FlagAfterDown(moveLeft, {"KeyA"}, code)
    /\ moveRight' = FlagAfterDown(moveRight, {"KeyD"}, code)
    /\ isSprinting' = FlagAfterDown(isSprinting, SprintKeys, code)
    /\ velocity' = VelocityAfterDown(code)
    /\ canJump' = CanJumpAfterDown(code)

onKeyUp(code) ==
    /\ UNCHANGED <<canJump, physics, isLocked, loop>>
    /\ moveForward' = FlagAfterUp(moveForward, {"KeyW"}, code)
    /\ moveBackward' = FlagAfterUp(moveBackward, {"KeyS"}, code)
    /\ moveLeft' = FlagAfterUp(moveLeft, {"KeyA"}, code)
    /\ moveRight' = FlagAfterUp(moveRight, {"KeyD"}, code)
    /\ isSprinting' = FlagAfterUp(isSprinting, SprintKeys, code)

----------------------------------------------------------------------------
(* animate *)

\* Mutant: the friction term is added instead of subtracted.
DampedGrowing(v, dt) == v + Quot(v * damping * dt, TicksPerSecond)

\* Mutant: the friction coefficient is doubled.
DampedDoubled(v, dt) == v - Quot(v * 2 * damping * dt, TicksPerSecond)

\* velocity.x -= velocity.x * 10.0 * delta
Damped(v, dt) == v - Quot(v * damping * dt, TicksPerSecond)

\* Mutant: gravity is not applied.
FallenNot(vy, dt) == vy

\* velocity.y -= gravity * delta
Fallen(vy, dt) == vy - Quot(gravity * VelScale * dt, TicksPerSecond)

\* Mutant: the sprint flag is ignored.
CurrentSpeedNoSprint(sprinting) == speed

\* isSprinting ? speed * sprintMultiplier : speed
CurrentSpeed(sprinting) == IF sprinting THEN speed * sprintMultiplier ELSE speed

\* Vector3.length() of (x, 0, z) for x, z in {-1, 0, 1}, in 1/DirScale.
LengthTable == [n \in 0..2 |-> ISqrt(n * DirScale * DirScale)]
Length(x, z) == LengthTable[x * x + z * z]

\* Mutant: the direction is not normalized.
NormalizeNot(x, z) == [x |-> x * DirScale, z |-> z * DirScale]

\* Vector3.normalize(): divideScalar(length() || 1)
Normalize(x, z) ==
    LET len == Length(x, z)
        by == IF len = 0 THEN DirScale ELSE len
    IN  [x |-> Quot(x * DirScale * DirScale, by), z |-> Quot(z * DirScale * DirScale, by)]

\* Mutant: the backward and left flags are not subtracted.
DirectionNoCancel(fwd, back, left, right) == Normalize(Num(right), Num(fwd))

\* direction.z, direction.x and direction.normalize()
Direction(fwd, back, left, right) == Normalize(Num(right) - Num(left), Num(fwd) - Num(back))

\* velocity.axis -= direction.axis * currentSpeed * delta, guarded by the axis' flag pair
Accelerated(v, active, dir, sprinting, dt) ==
    IF active
    THEN v - Quot(dir * CurrentSpeed(sprinting) * VelScale * dt, DirScale * TicksPerSecond)
    ELSE v

\* The lateral and vertical velocity after friction, gravity and acceleration.
Integrated(dt) ==
    LET dir == Direction(moveForward, moveBackward, moveLeft, moveRight)
    IN  [x |-> Accelerated(Damped(velocity.x, dt), moveLeft \/ moveRight, dir.x, isSprinting, dt),
         y |-> Fallen(velocity.y, dt),
         z |-> Accelerated(Damped(velocity.z, dt), moveForward \/ moveBackward, dir.z, isSprinting, dt)]

\* controls.object.position.y += velocity.y * delta
Risen(y, vy, dt) == y + vy * dt

\* Mutant: the clamp tests against the plane (y = 0) instead of the eye height.
ClampsAtZero(y) == y < 0

\* if (controls.object.position.y < 2)
Clamps(y) == y < Ground

\* Mutant: the clamp forgets to set canJump.
GroundClampSilent(v, y, cj) ==
    IF Clamps(y)
    THEN [velocity |-> [v EXCEPT !.y = 0], positionY |-> Ground, canJump |-> cj]
    ELSE [velocity |-> v, positionY |-> y, canJump |-> cj]

\* Mutant: the clamp forgets to zero the vertical velocity.
GroundClampKeepsSpeed(v, y, cj) ==
    IF Clamps(y)
    THEN [velocity |-> v, positionY |-> Ground, canJump |-> TRUE]
    ELSE [velocity |-> v, positionY |-> y, canJump |-> cj]

\* velocity.y = 0; position.y = 2; canJump = true, when the clamp's test holds
GroundClamp(v, y, cj) ==
    IF Clamps(y)
    THEN [velocity |-> [v EXCEPT !.y = 0], positionY |-> Ground, canJump |-> TRUE]
    ELSE [velocity |-> v, positionY |-> y, canJump |-> cj]

\* controls.moveRight(-velocity.x * delta); controls.moveForward(-velocity.z * delta)
Moved(v, dt) == [right |-> -(v.x * dt), forward |-> -(v.z * dt)]

\* Mutant: the integrator is not gated by the pointer lock.
EngagedAlways == TRUE

\* if (controls.isLocked === true)
Engaged == isLocked

\* Mutant: the next frame is requested only inside the locked branch.
AnimateOpsStopsUnlocked(locked) ==
    IF locked
    THEN <<"requestAnimationFrame", "getDelta", "integrate", "render">>
    ELSE <<"getDelta", "render">>

\* The calls one animate() makes, in order.
AnimateOps(locked) ==
    IF locked
    THEN <<"requestAnimationFrame", "getDelta", "integrate", "render">>
    ELSE <<"requestAnimationFrame", "getDelta", "render">>

Count(ops, op) == Cardinality({i \in DOMAIN ops : ops[i] = op})

animate(dt) ==
    /\ frameOps' = AnimateOps(Engaged)
    /\ pendingFrames' = pendingFrames - 1 + Count(frameOps', "requestAnimationFrame")
    /\ IF Engaged
       THEN LET v == Integrated(dt)
                y == Risen(positionY, v.y, dt)
                c == GroundClamp(v, y, canJump)
            IN  /\ moved' = Moved(v, dt)
                /\ velocity' = c.velocity
                /\ positionY' = c.positionY
                /\ canJump' = c.canJump
       ELSE UNCHANGED <<velocity, positionY, moved, canJump>>
    /\ UNCHANGED <<flags, isLocked>>

----------------------------------------------------------------------------
(* The environment: the keyboard, the pointer lock and the display refresh *)

\* A jump-triggered velocity set, seen from outside the handler.
JumpSet == velocity'.y = JumpSpeed /\ (canJump \/ velocity.y # JumpSpeed)

\* A frame in which the ground clamp acted.
ClampStep(dt) == Engaged /\ Clamps(Risen(positionY, Integrated(dt).y, dt))

KeyDown(code) ==
    /\ Cardinality(held \cup {code}) <= MaxHeld
    /\ held' = held \cup {code}
    /\ onKeyDown(code)
    /\ jumpedThisHold' = (jumpedThisHold \/ JumpSet)
    /\ frames' = frames

KeyUp(code) ==
    /\ held' = held \ {code}
    /\ onKeyUp(code)
    /\ jumpedThisHold' = IF code = "Space" THEN FALSE ELSE jumpedThisHold
    /\ frames' = frames

\* document click -> controls.lock()
Lock ==
    /\ ~isLocked
    /\ isLocked' = TRUE
    /\ UNCHANGED <<flags, canJump, physics, loop, history>>

\* PointerLockControls' unlock (Escape)
Unlock ==
    /\ isLocked
    /\ isLocked' = FALSE
    /\ UNCHANGED <<flags, canJump, physics, loop, history>>

Frame(dt) ==
    /\ pendingFrames > 0
    /\ animate(dt)
    /\ Abs(velocity'.x) <= MaxLateral
    /\ Abs(velocity'.z) <= MaxLateral
    /\ UNCHANGED <<held, jumpedThisHold, frames>>

\* The state once the module has been evaluated: the first animate() call
\* (pointer not locked) has queued the next frame and rendered.
Init ==
    /\ moveForward = FALSE
    /\ moveBackward = FALSE
    /\ moveLeft = FALSE
    /\ moveRight = FALSE
    /\ isSprinting = FALSE
    /\ canJump = FALSE
    /\ velocity = [x |-> 0, y |-> 0, z |-> 0]
    /\ positionY = Ground
    /\ moved = [right |-> 0, forward |-> 0]
    /\ isLocked = FALSE
    /\ pendingFrames = Count(AnimateOps(FALSE), "requestAnimationFrame")
    /\ frameOps = AnimateOps(FALSE)
    /\ held = {}
    /\ jumpedThisHold = FALSE
    /\ frames = 0

Next ==
    \/ \E code \in Codes : KeyDown(code)
    \/ \E code \in Codes : KeyUp(code)
    \/ Lock
    \/ Unlock
    \/ \E dt \in FrameTimes : Frame(dt)

Spec == Init /\ [][Next]_vars

\* The jump scenario: only the jump key, the pointer lock and the frames.
\* requestAnimationFrame(animate) at the head of animate keeps frames coming.
JumpNext ==
    \/ KeyDown("Space")
    \/ KeyUp("Space")
    \/ Lock
    \/ Unlock
    \/ \E dt \in FrameTimes : Frame(dt)

JumpSpec == Init /\ [][JumpNext]_vars /\ WF_vars(\E dt \in FrameTimes : Frame(dt))

----------------------------------------------------------------------------
(* Scenarios: the integrator applied to drawn inputs, in frames of single ticks *)

\* A lateral speed that four frames of whole ticks damp without rounding.
LateralSpeed == CoarseTick * CoarseTick * CoarseTick * CoarseTick

LateralSpeeds == {-LateralSpeed, 0, LateralSpeed}

\* The movement keys that are down when the flags have these values.
KeysOf(fwd, back, left, right) ==
    {code \in MoveKeys :
        \/ code = "KeyW" /\ fwd
        \/ code = "KeyS" /\ back
        \/ code = "KeyA" /\ left
        \/ code = "KeyD" /\ right}

\* The player stands on the ground with the pointer locked; the last frame
\* was an engaged one of dt = 0.
Standing ==
    /\ canJump = TRUE
    /\ positionY = Ground
    /\ moved = [right |-> 0, forward |-> 0]
    /\ isLocked = TRUE
    /\ pendingFrames = Count(AnimateOps(TRUE), "requestAnimationFrame")
    /\ frameOps = AnimateOps(TRUE)
    /\ jumpedThisHold = FALSE
    /\ frames = 0

\* One animate() call of a scenario.
ScenarioFrame(dt) ==
    /\ pendingFrames > 0
    /\ animate(dt)
    /\ frames' = frames + 1
    /\ UNCHANGED <<held, jumpedThisHold>>

\* The lateral scenario: any movement flags, sprinting or not, any lateral
\* velocity of LateralSpeeds, then MaxFrames engaged frames of 0..MaxFineDt
\* ticks with no key event in between.
LateralInit ==
    /\ Standing
    /\ moveForward \in BOOLEAN
    /\ moveBackward \in BOOLEAN
    /\ moveLeft \in BOOLEAN
    /\ moveRight \in BOOLEAN
    /\ isSprinting \in BOOLEAN
    /\ held = KeysOf(moveForward, moveBackward, moveLeft, moveRight)
                \cup (IF isSprinting THEN {"ShiftLeft"} ELSE {})
    /\ velocity \in [x : LateralSpeeds, y : {0}, z : LateralSpeeds]

LateralFrame(dt) == frames < MaxFrames /\ ScenarioFrame(dt)

LateralNext == \E dt \in 0..MaxFineDt : LateralFrame(dt)

LateralSpec == LateralInit /\ [][LateralNext]_vars

\* The sprint scenario: from rest, forward and one shift key held, the
\* pointer locked, SprintFrames frames of one tick (dt = 1/60 s).
SprintInit ==
    /\ Standing
    /\ moveForward = TRUE
    /\ moveBackward = FALSE
    /\ moveLeft = FALSE
    /\ moveRight = FALSE
    /\ isSprinting = TRUE
    /\ \E shift \in SprintKeys : held = {"KeyW", shift}
    /\ velocity = [x |-> 0, y |-> 0, z |-> 0]

SprintFrame == frames < SprintFrames /\ ScenarioFrame(1)

SprintSpec == SprintInit /\ [][SprintFrame]_vars

----------------------------------------------------------------------------
(* Claims *)

AnyFrame == \E dt \in FrameTimes : Frame(dt)

\* C1: in every reachable state the camera's vertical position is at least
\* the ground height 2.
C1_NeverBelowGround == positionY >= Ground

\* C1 witness: an engaged frame has brought the falling player down exactly
\* to the ground height without the clamp acting.
C1_FellToGround ==
    /\ frameOps = AnimateOps(TRUE)
    /\ positionY = Ground
    /\ velocity.y < 0

\* C2 as stated: canJump is true if and only if the vertical position is 2.
C2_GroundedIffAtGround == canJump <=> (positionY = Ground)

\* C2 as amended: whenever canJump is true the vertical position is 2 (the
\* converse fails: the position is 2 with canJump false initially, and after
\* a jump until the next engaged frame).
C2_GroundedOnlyAtGround == canJump => (positionY = Ground)

\* C2 witness: a clamping frame has set canJump at the ground height.
C2_Grounded ==
    /\ canJump
    /\ positionY = Ground
    /\ frameOps = AnimateOps(TRUE)
    /\ isLocked

\* C3: a 'Space' key-down sets velocity.y to the jump speed and clears
\* canJump when canJump is true, leaves both unchanged when canJump is
\* false, and in both cases leaves the lateral velocity, the camera position
\* and the five movement/sprint flags unchanged.
C3_SpaceKeyDown ==
    [][KeyDown("Space") =>
        /\ IF canJump
           THEN velocity'.y = jumpVelocity * VelScale /\ ~canJump'
           ELSE velocity'.y = velocity.y /\ canJump' = canJump
        /\ velocity'.x = velocity.x
        /\ velocity'.z = velocity.z
        /\ positionY' = positionY
        /\ moved' = moved
        /\ flags' = flags]_vars

\* C3 witness: a 'Space' key-down has triggered a jump while the player
\* was moving laterally.
C3_Jumped ==
    /\ "Space" \in held
    /\ velocity.y = JumpSpeed
    /\ ~canJump
    /\ positionY = Ground
    /\ velocity.z # 0

\* C4: during one hold of 'Space' (key-downs with no 'Space' key-up in
\* between) velocity.y is set to the jump speed at most once.
C4_HeldKeyJumpsOnce == [][~(jumpedThisHold /\ JumpSet)]_vars

\* The flag a movement or sprint key drives.
FlagFor(code) ==
    CASE code = "KeyW" -> moveForward
      [] code = "KeyS" -> moveBackward
      [] code = "KeyA" -> moveLeft
      [] code = "KeyD" -> moveRight
      [] OTHER -> isSprinting

\* C5: a frame that runs while the pointer is not locked leaves velocity,
\* the camera position, canJump and all input flags unchanged and only
\* renders; key events received while unlocked still set and clear the
\* movement and sprint flags.
C5_UnlockedFramePaused ==
    [][~isLocked =>
        /\ AnyFrame =>
            /\ UNCHANGED <<velocity, positionY, moved, canJump, flags>>
            /\ frameOps' = <<"requestAnimationFrame", "getDelta", "render">>
        /\ \A code \in MoveKeys \cup SprintKeys :
            /\ KeyDown(code) => FlagFor(code)'
            /\ KeyUp(code) => ~FlagFor(code)']_vars

\* C5 witness: the pointer was unlocked in mid-jump while moving, a frame
\* has run unlocked, and a movement flag was set while unlocked.
C5_PausedInMidAir ==
    /\ ~isLocked
    /\ frameOps = AnimateOps(FALSE)
    /\ positionY > Ground
    /\ velocity.y # 0
    /\ velocity.z = 0
    /\ moveForward

\* C6: canJump turns true only in an engaged frame that clamps the vertical
\* position to 2, every clamping frame leaves canJump true, and canJump
\* turns false only in a 'Space' key-down that sets velocity.y to the jump
\* speed.
C6_GroundedFlagEdges ==
    [][/\ (~canJump /\ canJump') =>
            \E dt \in FrameTimes :
                /\ Frame(dt)
                /\ isLocked
                /\ positionY + (velocity.y - (gravity * VelScale * dt) \div TicksPerSecond) * dt
                       < groundY * PosScale
                /\ positionY' = groundY * PosScale
       /\ \A dt \in FrameTimes :
            (/\ isLocked
             /\ positionY + (velocity.y - (gravity * VelScale * dt) \div TicksPerSecond) * dt
                    < groundY * PosScale
             /\ Frame(dt)) => canJump'
       /\ (canJump /\ ~canJump') =>
            (KeyDown("Space") /\ velocity'.y = jumpVelocity * VelScale)]_vars

\* C6 witness: the player has jumped and landed again, with the jump key
\* released in between.
C6_JumpedAndLanded ==
    /\ canJump
    /\ velocity.y = 0
    /\ "Space" \in held
    /\ ~jumpedThisHold
    /\ frameOps = AnimateOps(TRUE)

\* The jump scenario's states.
Jumped == velocity.y = JumpSpeed /\ ~canJump /\ positionY = Ground
Landed == positionY = Ground /\ velocity.y = 0 /\ canJump
EngagedFrame == \E dt \in FrameTimes \ {0} : Frame(dt) /\ isLocked

\* C7: after a jump every engaged frame with dt > 0 that leaves the player
\* airborne lowers velocity.y by exactly 30*dt, and if engaged frames with
\* dt > 0 keep occurring the player eventually lands: position.y = 2,
\* velocity.y = 0, canJump = true.
C7_JumpLands ==
    /\ [][\A dt \in FrameTimes \ {0} :
            (Frame(dt) /\ isLocked /\ ~canJump') =>
                velocity'.y = velocity.y - (gravity * VelScale * dt) \div TicksPerSecond]_vars
    /\ ([]<><<EngagedFrame>>_vars) => (Jumped ~> Landed)

\* C7 witness: the player is back on the ground after a jump of this hold.
C7_LandedAfterJump ==
    /\ Landed
    /\ jumpedThisHold
    /\ isLocked
    /\ frameOps = AnimateOps(TRUE)

\* C8: exactly one frame is scheduled at any time, and every animate() call
\* requests exactly one next frame, integrates at most once and renders
\* exactly once, the render being its last call (so after the integration).
C8_FrameSequential ==
    /\ pendingFrames = 1
    /\ Count(frameOps, "requestAnimationFrame") = 1
    /\ Count(frameOps, "integrate") <= 1
    /\ Count(frameOps, "render") = 1
    /\ frameOps[Len(frameOps)] = "render"

\* C8 witness: the most recent frame integrated (the player moved forward)
\* and then rendered.
C8_IntegratedThenRendered ==
    /\ frameOps = <<"requestAnimationFrame", "getDelta", "integrate", "render">>
    /\ moved.forward # 0
    /\ pendingFrames = 1

\* C9: a key-down or key-up with an unrecognized code, and a key-up of
\* 'Space', change none of the five input flags, canJump, velocity and
\* position.
C9_UnrecognizedKeyIgnored ==
    [][(\/ \E code \in Codes \ (MoveKeys \cup SprintKeys \cup {"Space"}) :
               KeyDown(code) \/ KeyUp(code)
        \/ KeyUp("Space")) =>
            UNCHANGED <<flags, canJump, velocity, positionY, moved>>]_vars

\* C9 witness: an unrecognized key is down while a movement flag is set and
\* the player is moving in mid-jump.
C9_UnrecognizedKeyHeld ==
    /\ "KeyQ" \in held
    /\ moveForward
    /\ velocity.z # 0
    /\ positionY > Ground

\* The sprint flag, canJump, velocity and position are unchanged.
RestUnchanged == UNCHANGED <<isSprinting, canJump, velocity, positionY, moved>>

\* C10: a key-down of KeyW/KeyS/KeyA/KeyD sets exactly its flag and a key-up
\* clears exactly its flag, every other flag, velocity and position being
\* unchanged; and each of the four movement flags is true if and only if its
\* key is currently held.
C10_MoveFlagsFollowKeys ==
    /\ [](/\ moveForward <=> ("KeyW" \in held)
          /\ moveBackward <=> ("KeyS" \in held)
          /\ moveLeft <=> ("KeyA" \in held)
          /\ moveRight <=> ("KeyD" \in held))
    /\ [][/\ KeyDown("KeyW") =>
            (moveForward' /\ RestUnchanged /\ UNCHANGED <<moveBackward, moveLeft, moveRight>>)
          /\ KeyDown("KeyS") =>
            (moveBackward' /\ RestUnchanged /\ UNCHANGED <<moveForward, moveLeft, moveRight>>)
          /\ KeyDown("KeyA") =>
            (moveLeft' /\ RestUnchanged /\ UNCHANGED <<moveForward, moveBackward, moveRight>>)
          /\ KeyDown("KeyD") =>
            (moveRight' /\ RestUnchanged /\ UNCHANGED <<moveForward, moveBackward, moveLeft>>)
          /\ KeyUp("KeyW") =>
            (~moveForward' /\ RestUnchanged /\ UNCHANGED <<moveBackward, moveLeft, moveRight>>)
          /\ KeyUp("KeyS") =>
            (~moveBackward' /\ RestUnchanged /\ UNCHANGED <<moveForward, moveLeft, moveRight>>)
          /\ KeyUp("KeyA") =>
            (~moveLeft' /\ RestUnchanged /\ UNCHANGED <<moveForward, moveBackward, moveRight>>)
          /\ KeyUp("KeyD") =>
            (~moveRight' /\ RestUnchanged /\ UNCHANGED <<moveForward, moveBackward, moveLeft>>)]_vars

\* C10 witness: forward and right are held and set, left has been pressed
\* and released again.
C10_ForwardAndRightHeld ==
    /\ held = {"KeyW", "KeyD"}
    /\ moveForward
    /\ moveRight
    /\ ~moveLeft
    /\ ~moveBackward
    /\ velocity.x > 0

\* The squared magnitude of the lateral velocity.
MagSq(v) == v.x * v.x + v.z * v.z

NoMoveFlags == ~moveForward /\ ~moveBackward /\ ~moveLeft /\ ~moveRight

AnyLateralFrame == \E dt \in 0..MaxFineDt : LateralFrame(dt)

\* A frame of the lateral scenario with frame time dt (the distances it
\* handed to the controls are compared first).
LateralStep(dt) ==
    /\ moved'.right = -(velocity'.x * dt)
    /\ moved'.forward = -(velocity'.z * dt)
    /\ LateralFrame(dt)

Reversed(before, after) == (before > 0 /\ after < 0) \/ (before < 0 /\ after > 0)

\* C12 as stated: with all movement keys released, over any sequence of
\* engaged frames of any dt >= 0 neither velocity.x nor velocity.z ever
\* changes sign.
C12_NeverReverses ==
    [][(NoMoveFlags /\ isLocked /\ AnyLateralFrame) =>
        /\ ~Reversed(velocity.x, velocity'.x)
        /\ ~Reversed(velocity.z, velocity'.z)]_vars

\* C12 as amended: with all movement keys released, over any sequence of
\* engaged frames of 10*dt < 1 neither velocity.x nor velocity.z changes
\* sign; a frame of 10*dt > 1 reverses the sign of every nonzero lateral
\* component.
C12_ShortFramesNeverReverse ==
    [][\A dt \in 0..MaxFineDt :
        (NoMoveFlags /\ isLocked /\ LateralFrame(dt)) =>
            /\ (damping * dt < TicksPerSecond) =>
                    /\ ~Reversed(velocity.x, velocity'.x)
                    /\ ~Reversed(velocity.z, velocity'.z)
            /\ (damping * dt > TicksPerSecond) =>
                    /\ (velocity.x # 0) => Reversed(velocity.x, velocity'.x)
                    /\ (velocity.z # 0) => Reversed(velocity.z, velocity'.z)]_vars

\* C12 witness: with no movement flag set, MaxFrames frames have run, the
\* last one of 0 < 10*dt < 1, and both lateral components are nonzero and
\* below the drawn speed, velocity.x negative and velocity.z positive.
C12_DecayedBothAxes ==
    /\ NoMoveFlags
    /\ frames = MaxFrames
    /\ velocity.x < 0
    /\ -LateralSpeed < velocity.x
    /\ 0 < velocity.z
    /\ velocity.z < LateralSpeed
    /\ moved.right > 0
    /\ damping * moved.right < TicksPerSecond * (-velocity.x)

\* The squared length of the direction the integrator uses, in 1/DirScale^2.
DirectionSq ==
    LET d == Direction(moveForward, moveBackward, moveLeft, moveRight)
    IN  d.x * d.x + d.z * d.z

\* An axis has a non-cancelled input when exactly one of its two flags is set.
XInput == moveLeft # moveRight
ZInput == moveForward # moveBackward

\* What one frame's acceleration step added to a lateral component: the
\* component after the frame minus the component after friction alone.
Added(before, after, dt) == after - (before - Quot(before * damping * dt, TicksPerSecond))

\* The amount an axis-aligned input adds in a frame: currentSpeed * dt.
FullStep(dt) ==
    ((IF isSprinting THEN speed * sprintMultiplier ELSE speed) * VelScale * dt) \div TicksPerSecond

\* C13 as stated: the direction's squared length is exactly 1 when at least
\* one axis has a non-cancelled input and 0 otherwise.
C13_DirectionExactlyUnit ==
    DirectionSq = IF XInput \/ ZInput THEN DirScale * DirScale ELSE 0

\* C13 as amended: the direction's squared length is 0 when no axis has a
\* non-cancelled input, exactly 1 when one axis has, and 1 up to the rounding
\* of the two equal components when both have; the acceleration a diagonal
\* input adds in one frame has, up to that rounding, the magnitude of the
\* one an axis-aligned input adds, which is currentSpeed * dt on its axis.
C13_DirectionUnitUpToRounding ==
    /\ [](/\ (~XInput /\ ~ZInput) => DirectionSq = 0
          /\ (XInput # ZInput) => DirectionSq = DirScale * DirScale
          /\ (XInput /\ ZInput) =>
                Abs(DirectionSq - DirScale * DirScale) <= 3 * DirScale)
    /\ [][\A dt \in 0..MaxFineDt :
            LateralStep(dt) =>
                LET ax == Added(velocity.x, velocity'.x, dt)
                    az == Added(velocity.z, velocity'.z, dt)
                    full == FullStep(dt)
                IN  /\ (~XInput) => ax = 0
                    /\ (~ZInput) => az = 0
                    /\ (XInput /\ ~ZInput) => Abs(ax) = full
                    /\ (ZInput /\ ~XInput) => Abs(az) = full
                    /\ (XInput /\ ZInput) =>
                            /\ Abs(ax) = Abs(az)
                            /\ Abs(ax * ax + az * az - full * full) <= 6 * full]_vars

\* C13 witness: forward and right alone are set and one frame of dt > 0 has
\* accelerated the resting player equally on both axes.
C13_DiagonalStep ==
    /\ moveForward
    /\ moveRight
    /\ ~moveBackward
    /\ ~moveLeft
    /\ frames = 1
    /\ velocity.x < 0
    /\ velocity.x = velocity.z
    /\ moved.right = moved.forward
    /\ damping * moved.right < TicksPerSecond * (-velocity.x)

\* The effective sprint speed speed * sprintMultiplier, in 1/VelScale.
SprintSpeed == speed * sprintMultiplier * VelScale

\* C14 as stated: in the sprint scenario the magnitude of velocity.z never
\* exceeds the effective sprint speed 100 and ends the second close to it
\* (within a tenth of it).
C14_SprintNears100 ==
    /\ Abs(velocity.z) <= SprintSpeed
    /\ (frames = SprintFrames) => 10 * Abs(velocity.z) >= 9 * SprintSpeed

\* C14 as amended: in the sprint scenario the first frame brings velocity.z
\* to -100/60, every further frame does not lower its magnitude, the
\* magnitude never exceeds the equilibrium 100/10 = 10 of friction and
\* acceleration, and it ends the second within 1% of 10; velocity.x stays 0.
C14_SprintNears10 ==
    /\ [](/\ velocity.x = 0
          /\ velocity.z <= 0
          /\ damping * Abs(velocity.z) <= SprintSpeed
          /\ (frames = SprintFrames) =>
                100 * damping * Abs(velocity.z) >= 99 * SprintSpeed)
    /\ [][/\ Abs(velocity'.z) >= Abs(velocity.z)
          /\ (frames = 0) => velocity'.z = -(SprintSpeed \div TicksPerSecond)]_vars

\* C14 witness: the sixty frames have run with forward and the right shift
\* key held, and the player moves forward.
C14_SprintedOneSecond ==
    /\ frames = SprintFrames
    /\ held = {"KeyW", "ShiftRight"}
    /\ isSprinting
    /\ velocity.z < 0
    /\ moved.forward > 0

\* C15: after every key-down of a shift key and every key-up of a held shift
\* key, isSprinting is true if and only if at least one of the two shift
\* keys is held (releasing one while the other is held keeps it true).
C15_SprintIffShiftHeld ==
    [][\A code \in SprintKeys :
        (KeyDown(code) \/ (code \in held /\ KeyUp(code))) =>
            (isSprinting' <=> (held' \cap SprintKeys # {}))]_vars

\* C16: while the pointer is not locked no event (key-down, key-up, frame)
\* changes velocity, canJump or the camera position.
C16_UnlockedNothingMoves ==
    [][~isLocked => UNCHANGED <<velocity, canJump, positionY, moved>>]_vars

\* C17: in every reachable state canJump = true implies position.y = 2 and
\* velocity.y = 0.
C17_GroundedAtRest == canJump => (positionY = Ground /\ velocity.y = 0)

\* C17 witness: an engaged frame of dt > 0 has run with the player walking
\* on the ground; gravity's pull of that frame was clamped away.
C17_GravityClampedAway ==
    /\ canJump
    /\ positionY = Ground
    /\ velocity.y = 0
    /\ isLocked
    /\ frameOps = AnimateOps(TRUE)
    /\ moved.forward # 0
    /\ "Space" \notin held
    /\ ~jumpedThisHold

\* C18: in an engaged frame with moveForward and moveBackward both true
\* velocity.z changes by friction only, likewise velocity.x with moveLeft
\* and moveRight both true, and the other axis, when exactly one of its flags
\* is set, is accelerated by the full currentSpeed * dt, as with that flag
\* alone.
C18_OpposingKeysCancel ==
    [][\A dt \in 0..MaxFineDt :
        LateralStep(dt) =>
            /\ (moveForward /\ moveBackward) =>
                    /\ Added(velocity.z, velocity'.z, dt) = 0
                    /\ (moveRight /\ ~moveLeft) =>
                            Added(velocity.x, velocity'.x, dt) = -FullStep(dt)
                    /\ (moveLeft /\ ~moveRight) =>
                            Added(velocity.x, velocity'.x, dt) = FullStep(dt)
            /\ (moveLeft /\ moveRight) =>
                    /\ Added(velocity.x, velocity'.x, dt) = 0
                    /\ (moveForward /\ ~moveBackward) =>
                            Added(velocity.z, velocity'.z, dt) = -FullStep(dt)
                    /\ (moveBackward /\ ~moveForward) =>
                            Added(velocity.z, velocity'.z, dt) = FullStep(dt)]_vars

\* C18 witness: forward, backward and right are set; frames of dt > 0 have
\* accelerated the player to the right while velocity.z only decayed.
C18_CancelledForwardBackward ==
    /\ held = {"KeyW", "KeyS", "KeyD"}
    /\ moveForward
    /\ moveBackward
    /\ moveRight
    /\ ~moveLeft
    /\ frames = MaxFrames
    /\ 0 < velocity.z
    /\ velocity.z < LateralSpeed
    /\ velocity.x < 0
    /\ moved.right > 0

====
